---- MODULE Spec2Model ----
(***************************************************************************)
(* Model of the Smart Gadget service of rpi-smartgadget.                   *)
(*                                                                         *)
(* SmartGadgetService (smartgadget/service.py) keeps a map of cached       *)
(* Bluetooth sessions, a set of explicitly requested connections and a     *)
(* retry counter.  Every public method is a single-threaded call; a call   *)
(* that talks to a Smart Gadget is split into one step per attempt, so     *)
(* that the outcome of each attempt (the Bluetooth link is external) is a  *)
(* nondeterministic input of that step.                                    *)
(*                                                                         *)
(* The download engine (smartgadget/sht3x.py, smartgadget/smart_gadget.py) *)
(* is modelled by further specifications over variables of their own:     *)
(* SpecMerge (one call of merge), SpecFetch (the download loop of          *)
(* SHT3XService.fetch_logged_data), SpecPass (one download pass with its   *)
(* NotificationHandler), SpecDewpoint (the dew point of a reading) and     *)
(* SpecInterval (the logger interval used by the download loop).           *)
(***************************************************************************)
EXTENDS Integers, Sequences, FiniteSets, TLC

\* ---------------------------------------------------------------------
\* Bounds of the model
\* ---------------------------------------------------------------------
Devices == {"d1", "d2"}          \* MAC addresses
MaxAttemptsArg == 2              \* largest argument given to set_max_attempts
MaxSessions == 2                 \* session objects the Bluetooth link grants in a run
MaxIds == 2                      \* longest mac_addresses list given to connect_gadgets
MaxIterations == 2               \* largest num_iterations given to fetch_logged_data

\* ---------------------------------------------------------------------
\* Program constants
\* ---------------------------------------------------------------------
DefaultMaxAttempts == 5          \* self._max_attempts = 5
None == 0                        \* dict.get() miss / no session object

Transient == {"BrokenPipeError", "BTLEDisconnectError"}
MethodNames == {"temperature", "set_logger_interval"}

VARIABLES
    max_attempts,           \* self._max_attempts
    retries_remaining,      \* self._retries_remaining
    gadgets_connected,      \* self._gadgets_connected : MAC -> session object (None = no key)
    requested_connections,  \* self._requested_connections
    sessions_created,       \* number of session objects constructed so far (object identity)
    pc,                     \* position of the running call
    frame,                  \* locals of the running connect_gadgets / _process call
    fetch,                  \* locals of the running SHT3XService.fetch_logged_data call
    last,                   \* the call that has just ended, with its result (while no call runs)
    mg,                     \* one call of merge() inside SHT3XService.fetch_logged_data
    rc,                     \* the download loop of SHT3XService.fetch_logged_data with its data
    np,                     \* one download pass: SHT3X.fetch_logged_data and its NotificationHandler
    dw,                     \* one call of dewpoint()
    iv                      \* the logger interval: on the Smart Gadget, in the handler, in a call

vars == <<max_attempts, retries_remaining, gadgets_connected, requested_connections,
          sessions_created, pc, frame, fetch, last, mg, rc, np, dw, iv>>

\* the variables of the connection supervisor
supervisor == <<max_attempts, retries_remaining, gadgets_connected, requested_connections,
                sessions_created, pc, frame, fetch, last>>

\* the variables of the download engine and of dewpoint(), which the connection
\* supervisor never touches
aux == <<mg, rc, np, dw, iv>>

service == <<max_attempts, retries_remaining, gadgets_connected, requested_connections>>

\* ---------------------------------------------------------------------
\* Helpers
\* ---------------------------------------------------------------------
Max(a, b) == IF a >= b THEN a ELSE b

RECURSIVE SeqsUpTo(_, _)
SeqsUpTo(S, n) ==
    IF n = 0 THEN {<<>>}
    ELSE LET shorter == SeqsUpTo(S, n - 1)
         IN  shorter \cup {Append(s, x) : s \in {t \in shorter : Len(t) = n - 1}, x \in S}

NoFrame ==
    [method            |-> "none",
     method_name       |-> "none",
     mac_address       |-> "none",
     mac_addresses     |-> <<>>,
     strict            |-> FALSE,
     single            |-> FALSE,
     index             |-> 0,
     failed_connections |-> <<>>,
     k                 |-> 0,
     max_attempts      |-> 0,
     was_cached        |-> FALSE,
     was_requested     |-> FALSE,
     budget            |-> 0,
     attempts          |-> 0,
     executions        |-> 0,
     effects           |-> 0,
     outcome           |-> "none",
     teardown_raised   |-> FALSE,
     log               |-> <<>>,
     result            |-> "none",
     value             |-> "none"]

NoFetch ==
    [active |-> FALSE, mac_address |-> "none", num_iterations |-> 0,
     iteration |-> 0, delegate |-> None, was_cached |-> FALSE]

\* ---------------------------------------------------------------------
\* SmartGadgetService.__init__
\* ---------------------------------------------------------------------
SupervisorInit ==
    /\ max_attempts = DefaultMaxAttempts
    /\ retries_remaining = 0
    /\ gadgets_connected = [d \in Devices |-> None]
    /\ requested_connections = {}
    /\ sessions_created = 0
    /\ pc = "idle"
    /\ frame = NoFrame
    /\ fetch = NoFetch
    /\ last = NoFrame

NoMerge == [stage |-> "none"]
NoFetchLoop == [stage |-> "none"]
NoPass == [stage |-> "none"]
NoDewpoint == [stage |-> "none"]
NoInterval == [stage |-> "none"]

Init ==
    /\ SupervisorInit
    /\ mg = NoMerge
    /\ rc = NoFetchLoop
    /\ np = NoPass
    /\ dw = NoDewpoint
    /\ iv = NoInterval

\* ---------------------------------------------------------------------
\* set_max_attempts
\* ---------------------------------------------------------------------
ClampAttempts_none(n) == n

\* max(1, int(max_attempts)) for an integer argument
ClampAttempts(n) == Max(1, n)

SetMaxAttempts(n) ==
    /\ pc = "idle"
    /\ max_attempts' = ClampAttempts(n)
    /\ last' = [NoFrame EXCEPT !.method = "set_max_attempts", !.k = ClampAttempts(n),
                               !.max_attempts = n, !.result = "returned"]
    /\ UNCHANGED <<retries_remaining, gadgets_connected, requested_connections,
                   sessions_created, pc, frame, fetch>>
    /\ UNCHANGED aux

\* ---------------------------------------------------------------------
\* _connect : one pass of the `while gadget is None` loop
\* ---------------------------------------------------------------------
\* a _connect that gives up one failure too late
ConnectGivesUp_late(r) == r < 0

\* `if self._retries_remaining < 1: raise` in _connect
ConnectGivesUp(r) == r < 1

\* gadget = self._cls(device, ...); self._gadgets_connected[mac_address] = gadget
Established(mac) ==
    /\ sessions_created' = sessions_created + 1
    /\ gadgets_connected' = [gadgets_connected EXCEPT ![mac] = sessions_created + 1]

\* ---------------------------------------------------------------------
\* connect_gadget / connect_gadgets
\* ---------------------------------------------------------------------
\* a connect_gadgets that does not reset the budget for each device
ConnectGadgetsBudget_stale(k, r) == r

\* self._retries_remaining = self._max_attempts (first statement of the for body)
ConnectGadgetsBudget(k, r) == k

\* a connect_gadgets that ignores `strict`
StrictRaises_never(strict) == FALSE

\* `if strict: raise` in the except clause of connect_gadgets
StrictRaises(strict) == strict

LogEntry(mac, budget, attempts, connected) ==
    [mac |-> mac, budget |-> budget, attempts |-> attempts, connected |-> connected]

\* connect_gadget(mac, strict) is connect_gadgets([mac], strict) with `single`
ConnectGadgets(ids, strict, single) ==
    /\ pc = "idle"
    /\ single => Len(ids) = 1
    /\ frame' = [NoFrame EXCEPT !.method = "connect_gadgets", !.mac_addresses = ids,
                                !.strict = strict, !.single = single, !.k = max_attempts]
    /\ pc' = "cg_for"
    /\ last' = NoFrame
    /\ UNCHANGED <<service, sessions_created, fetch>>
    /\ UNCHANGED aux

\* head of `for mac_address in mac_addresses`, up to the cache lookup of _connect;
\* when the list is used up: `return list(self._gadgets_connected), failed_connections`
\* and, for connect_gadget, `return len(failed) == 0`
ConnectGadgetsFor ==
    /\ pc = "cg_for"
    /\ IF frame.index = Len(frame.mac_addresses)
       THEN /\ last' = [frame EXCEPT !.result = "returned",
                           !.value = IF ~frame.single THEN "none"
                                     ELSE IF Len(frame.failed_connections) = 0
                                          THEN "True" ELSE "False"]
            /\ frame' = NoFrame
            /\ pc' = "idle"
            /\ UNCHANGED <<service, sessions_created, fetch>>
       ELSE LET mac == frame.mac_addresses[frame.index + 1]
                budget == ConnectGadgetsBudget(max_attempts, retries_remaining)
            IN  /\ retries_remaining' = budget
                /\ IF gadgets_connected[mac] # None
                   THEN /\ requested_connections' = requested_connections \cup {mac}
                        /\ frame' = [frame EXCEPT !.mac_address = mac, !.budget = budget,
                                         !.attempts = 0, !.index = @ + 1,
                                         !.log = Append(@, LogEntry(mac, budget, 0, TRUE))]
                        /\ pc' = "cg_for"
                   ELSE /\ frame' = [frame EXCEPT !.mac_address = mac, !.budget = budget,
                                         !.attempts = 0]
                        /\ pc' = "cg_connect"
                        /\ UNCHANGED requested_connections
                /\ UNCHANGED <<max_attempts, gadgets_connected, sessions_created, fetch, last>>
    /\ UNCHANGED aux

\* one attempt of _connect made for connect_gadgets; ok = the constructor returned,
\* ~ok = it raised BTLEDisconnectError
ConnectGadgetsAttempt(ok) ==
    /\ pc = "cg_connect"
    /\ ok => sessions_created < MaxSessions
    /\ LET mac == frame.mac_address
           r == retries_remaining - 1
           n == frame.attempts + 1
       IN  /\ retries_remaining' = r
           /\ IF ok
              THEN /\ Established(mac)
                   /\ requested_connections' = requested_connections \cup {mac}
                   /\ frame' = [frame EXCEPT !.attempts = n, !.index = @ + 1,
                                    !.log = Append(@, LogEntry(mac, frame.budget, n, TRUE))]
                   /\ pc' = "cg_for"
                   /\ UNCHANGED last
              ELSE IF ~ConnectGivesUp(r)
              THEN /\ frame' = [frame EXCEPT !.attempts = n]
                   /\ pc' = "cg_connect"
                   /\ UNCHANGED <<gadgets_connected, requested_connections,
                                  sessions_created, last>>
              ELSE IF StrictRaises(frame.strict)
              THEN /\ last' = [frame EXCEPT !.attempts = n, !.result = "BTLEDisconnectError",
                                   !.log = Append(@, LogEntry(mac, frame.budget, n, FALSE))]
                   /\ frame' = NoFrame
                   /\ pc' = "idle"
                   /\ UNCHANGED <<gadgets_connected, requested_connections, sessions_created>>
              ELSE /\ frame' = [frame EXCEPT !.attempts = n, !.index = @ + 1,
                                    !.failed_connections = Append(@, mac),
                                    !.log = Append(@, LogEntry(mac, frame.budget, n, FALSE))]
                   /\ pc' = "cg_for"
                   /\ UNCHANGED <<gadgets_connected, requested_connections,
                                  sessions_created, last>>
    /\ UNCHANGED <<max_attempts, fetch>>
    /\ UNCHANGED aux

\* ---------------------------------------------------------------------
\* disconnect_gadget / disconnect_gadgets
\* ---------------------------------------------------------------------
\* self._gadgets_connected.pop(mac_address, None)
ConnectedAfterDisconnect(connected, mac) == [connected EXCEPT ![mac] = None]

\* a disconnect_gadget whose teardown error skips the rest of the method
RequestedAfterDisconnect_unguarded(requested, mac, gadget, teardown_raises) ==
    IF gadget # None /\ teardown_raises THEN requested ELSE requested \ {mac}

\* gadget.disconnect() inside try/except: pass, then
\* self._requested_connections.remove(mac_address) inside try/except: pass
RequestedAfterDisconnect(requested, mac, gadget, teardown_raises) == requested \ {mac}

\* "returned", or the error that leaves disconnect_gadget
DisconnectResult(gadget, teardown_raises) == "returned"

DisconnectGadget(mac, teardown_raises) ==
    /\ pc = "idle"
    /\ LET gadget == gadgets_connected[mac]
       IN  /\ gadgets_connected' = ConnectedAfterDisconnect(gadgets_connected, mac)
           /\ requested_connections' =
                  RequestedAfterDisconnect(requested_connections, mac, gadget, teardown_raises)
           /\ last' = [NoFrame EXCEPT !.method = "disconnect_gadget", !.mac_address = mac,
                           !.was_cached = (gadget # None),
                           !.was_requested = (mac \in requested_connections),
                           !.teardown_raised = (gadget # None /\ teardown_raises),
                           !.result = DisconnectResult(gadget, teardown_raises)]
    /\ UNCHANGED <<max_attempts, retries_remaining, sessions_created, pc, frame, fetch>>
    /\ UNCHANGED aux

\* for mac_address, gadget in self._gadgets_connected.items(): ... remove(mac_address)
RequestedAfterDisconnectAll(connected, requested) ==
    requested \ {d \in Devices : connected[d] # None}

DisconnectGadgets ==
    /\ pc = "idle"
    /\ requested_connections' =
           RequestedAfterDisconnectAll(gadgets_connected, requested_connections)
    /\ gadgets_connected' = [d \in Devices |-> None]
    /\ last' = [NoFrame EXCEPT !.method = "disconnect_gadgets", !.result = "returned"]
    /\ UNCHANGED <<max_attempts, retries_remaining, sessions_created, pc, frame, fetch>>
    /\ UNCHANGED aux

\* ---------------------------------------------------------------------
\* _process
\* ---------------------------------------------------------------------
\* a _process that grants one attempt more than max_attempts
ProcessBudget_extra(k, r) == k + 1

\* self._retries_remaining = self._max_attempts (first statement of _process)
ProcessBudget(k, r) == k

\* a _process that surfaces the error while one retry remains
ProcessGivesUp_early(r) == r < 2

\* `if self._retries_remaining < 1: raise` in the except clause of _process
ProcessGivesUp(r) == r < 1

\* the methods of SHT3X that write the logger interval (SHT3X.set_logger_interval)
Writes(method_name) == method_name = "set_logger_interval"

\* entry of _process up to the cache lookup of the first _connect
ProcessEnter(method_name, mac) ==
    /\ retries_remaining' = ProcessBudget(max_attempts, retries_remaining)
    /\ frame' = [NoFrame EXCEPT !.method = "_process", !.method_name = method_name,
                     !.mac_address = mac, !.k = max_attempts,
                     !.budget = ProcessBudget(max_attempts, retries_remaining),
                     !.was_cached = (gadgets_connected[mac] # None),
                     !.was_requested = (mac \in requested_connections)]
    /\ pc' = IF gadgets_connected[mac] # None THEN "p_exec" ELSE "p_connect"
    /\ last' = NoFrame

\* _process returns or raises; inside fetch_logged_data control goes back to its loop
ProcessEnds(f) ==
    /\ last' = f
    /\ frame' = NoFrame
    /\ pc' = IF fetch.active THEN "f_pass_done" ELSE "idle"

\* a request made through one of the public methods that call _process
Process(method_name, mac) ==
    /\ pc = "idle"
    /\ ProcessEnter(method_name, mac)
    /\ UNCHANGED <<max_attempts, gadgets_connected, requested_connections,
                   sessions_created, fetch>>
    /\ UNCHANGED aux

\* one attempt of _connect made for _process
ProcessConnectAttempt(ok) ==
    /\ pc = "p_connect"
    /\ ok => sessions_created < MaxSessions
    /\ LET mac == frame.mac_address
           r == retries_remaining - 1
           n == frame.attempts + 1
       IN  /\ retries_remaining' = r
           /\ IF ok
              THEN /\ Established(mac)
                   /\ frame' = [frame EXCEPT !.attempts = n]
                   /\ pc' = "p_exec"
                   /\ UNCHANGED last
              ELSE IF ~ConnectGivesUp(r)
              THEN /\ frame' = [frame EXCEPT !.attempts = n]
                   /\ pc' = "p_connect"
                   /\ UNCHANGED <<gadgets_connected, sessions_created, last>>
              ELSE /\ ProcessEnds([frame EXCEPT !.attempts = n,
                                       !.result = "BTLEDisconnectError"])
                   /\ UNCHANGED <<gadgets_connected, sessions_created>>
    /\ UNCHANGED <<max_attempts, requested_connections, fetch>>
    /\ UNCHANGED aux

\* out = getattr(gadget, method_name)(**kwargs) and what follows it.
\* outcome: "ok", a transient error, or another error raised by the method;
\* wrote: the logger-interval write reached the Smart Gadget before the method ended
ProcessExecute(outcome, wrote, teardown_raises) ==
    /\ pc = "p_exec"
    /\ wrote => Writes(frame.method_name)
    /\ (outcome = "ok" /\ Writes(frame.method_name)) => wrote
    /\ LET mac == frame.mac_address
           f == [frame EXCEPT !.executions = @ + 1,
                              !.effects = @ + (IF wrote THEN 1 ELSE 0),
                              !.outcome = outcome]
       IN  IF outcome = "ok"
           THEN /\ IF mac \notin requested_connections
                   THEN /\ gadgets_connected' = ConnectedAfterDisconnect(gadgets_connected, mac)
                        /\ requested_connections' =
                               RequestedAfterDisconnect(requested_connections, mac,
                                                        gadgets_connected[mac], teardown_raises)
                   ELSE UNCHANGED <<gadgets_connected, requested_connections>>
                /\ ProcessEnds([f EXCEPT !.result = "returned"])
           ELSE IF outcome \in Transient /\ ~ProcessGivesUp(retries_remaining)
           THEN /\ gadgets_connected' = [gadgets_connected EXCEPT ![mac] = None]
                /\ frame' = f
                /\ pc' = "p_connect"
                /\ UNCHANGED <<requested_connections, last>>
           ELSE /\ ProcessEnds([f EXCEPT !.result = outcome])
                /\ UNCHANGED <<gadgets_connected, requested_connections>>
    /\ UNCHANGED <<max_attempts, retries_remaining, sessions_created, fetch>>
    /\ UNCHANGED aux

\* ---------------------------------------------------------------------
\* SHT3XService.fetch_logged_data
\* ---------------------------------------------------------------------
FetchFrame(result) ==
    [NoFrame EXCEPT !.method = "fetch_logged_data", !.mac_address = fetch.mac_address,
                    !.was_cached = fetch.was_cached, !.index = fetch.iteration,
                    !.result = result]

\* delegate = self._gadgets_connected[mac_address].delegate, then the first pass
FetchLoggedData(mac, num_iterations) ==
    /\ pc = "idle"
    /\ IF gadgets_connected[mac] = None
       THEN /\ last' = [NoFrame EXCEPT !.method = "fetch_logged_data", !.mac_address = mac,
                            !.was_requested = (mac \in requested_connections),
                            !.result = "KeyError"]
            /\ UNCHANGED <<service, sessions_created, pc, frame, fetch>>
       ELSE /\ fetch' = [active |-> TRUE, mac_address |-> mac,
                         num_iterations |-> num_iterations, iteration |-> 0,
                         delegate |-> gadgets_connected[mac], was_cached |-> TRUE]
            /\ ProcessEnter("fetch_logged_data", mac)
            /\ UNCHANGED <<max_attempts, gadgets_connected, requested_connections,
                           sessions_created>>
    /\ UNCHANGED aux

\* the rest of the for body after _process; more = values are still missing in a
\* stream that is still enabled
FetchAfterPass(more) ==
    /\ pc = "f_pass_done"
    /\ IF last.result # "returned"
       THEN /\ last' = FetchFrame(last.result)
            /\ fetch' = NoFetch
            /\ pc' = "idle"
            /\ UNCHANGED <<service, sessions_created, frame>>
       ELSE IF more /\ fetch.iteration + 1 < fetch.num_iterations
       THEN /\ fetch' = [fetch EXCEPT !.iteration = @ + 1]
            /\ ProcessEnter("fetch_logged_data", fetch.mac_address)
            /\ UNCHANGED <<max_attempts, gadgets_connected, requested_connections,
                           sessions_created>>
       ELSE /\ last' = [FetchFrame("returned") EXCEPT !.index = fetch.iteration + 1]
            /\ fetch' = NoFetch
            /\ pc' = "idle"
            /\ UNCHANGED <<service, sessions_created, frame>>
    /\ UNCHANGED aux

\* ---------------------------------------------------------------------
\* Specification
\* ---------------------------------------------------------------------
Outcomes == {"ok", "ValueError"} \cup Transient

Next ==
    \/ \E n \in -1..MaxAttemptsArg : SetMaxAttempts(n)
    \/ \E ids \in SeqsUpTo(Devices, MaxIds) \ {<<>>}, strict \in BOOLEAN, single \in BOOLEAN :
           ConnectGadgets(ids, strict, single)
    \/ ConnectGadgetsFor
    \/ \E ok \in BOOLEAN : ConnectGadgetsAttempt(ok)
    \/ \E mac \in Devices, teardown_raises \in BOOLEAN : DisconnectGadget(mac, teardown_raises)
    \/ DisconnectGadgets
    \/ \E method_name \in MethodNames, mac \in Devices : Process(method_name, mac)
    \/ \E ok \in BOOLEAN : ProcessConnectAttempt(ok)
    \/ \E outcome \in Outcomes, wrote \in BOOLEAN, teardown_raises \in BOOLEAN :
           ProcessExecute(outcome, wrote, teardown_raises)
    \/ \E mac \in Devices, num_iterations \in 1..MaxIterations :
           FetchLoggedData(mac, num_iterations)
    \/ \E more \in BOOLEAN : FetchAfterPass(more)

Spec == Init /\ [][Next]_vars

TypeOK ==
    /\ max_attempts \in 1..Max(DefaultMaxAttempts, MaxAttemptsArg)
    /\ retries_remaining \in 0..Max(DefaultMaxAttempts, MaxAttemptsArg)
    /\ gadgets_connected \in [Devices -> 0..MaxSessions]
    /\ requested_connections \subseteq Devices
    /\ sessions_created \in 0..MaxSessions
    /\ pc \in {"idle", "cg_for", "cg_connect", "p_connect", "p_exec", "f_pass_done"}

\* =====================================================================
\* Reconciliation Engine: merge(), nested in SHT3XService.fetch_logged_data
\* =====================================================================
\* A Timeline is a sequence of <<timestamp, value>> rows (the code's
\* [ms, value] lists); the value of a slot that was not delivered is None.
Missing == -1

MaxLen == 3
Readings == {0, 1}
LoggerIntervals == {10}
FirstTimestamps == {10, 15, 20, 30}

Values == {Missing} \cup Readings

Abs(x) == IF x < 0 THEN -x ELSE x

\* round(a / b) of Python 3 for a >= 0 and b > 0: a tie goes to the even integer
Round(a, b) ==
    LET q == a \div b
        r == a % b
    IN  IF 2 * r < b THEN q
        ELSE IF 2 * r > b THEN q + 1
        ELSE IF q % 2 = 0 THEN q ELSE q + 1

\* the rows of every Timeline of at most MaxLen slots, `interval` apart
Timelines(interval) ==
    { [p \in 1..Len(vs) |-> <<t0 + (p - 1) * interval, vs[p]>>] :
          t0 \in FirstTimestamps, vs \in SeqsUpTo(Values, MaxLen) \ {<<>>} }

bad_timestamps(array) ==
    LET bad == SelectSeq(array, LAMBDA row : row[2] = Missing)
    IN  [p \in 1..Len(bad) |-> bad[p][1]]

MergeIndex_ahead(logger_interval, original, latest) ==
    Round(Abs(latest[1][1] - original[1][1]), logger_interval) + 1

\* the best-guess offset (0-based) of latest[0] in original
MergeIndex(logger_interval, original, latest) ==
    Max(0, Round(Abs(latest[1][1] - original[1][1]), logger_interval) - 1)

MergeIndices(index) == <<index, index - 1, index + 1, index - 2, index + 2>>

\* the inner while loop: some slot shared at offset i holds two different values
ValueMismatch(original, latest, i) ==
    \E j \in 1..Len(latest) :
        /\ i + j <= Len(original)
        /\ original[i + j][2] # Missing
        /\ latest[j][2] # Missing
        /\ original[i + j][2] # latest[j][2]

\* the `break` that ends the body of the for loop is taken whatever the
\* inner loop found
ForLoopBreaks(mismatch) == TRUE

\* the for loop over the candidate offsets, from candidate k on; `index` is
\* the offset the merge will use if the loop ends here
RECURSIVE FindOffset(_, _, _, _, _)
FindOffset(indices, k, original, latest, index) ==
    IF k > Len(indices) THEN [index |-> index, raised |-> "none", mismatch |-> FALSE]
    ELSE IF indices[k] < 0 THEN FindOffset(indices, k + 1, original, latest, index)
    ELSE LET mismatch == ValueMismatch(original, latest, indices[k])
         IN  IF mismatch /\ indices[k] = indices[Len(indices)]
                 THEN [index |-> indices[k], raised |-> "AssertionError", mismatch |-> TRUE]
             ELSE IF ForLoopBreaks(mismatch)
                 THEN [index |-> indices[k], raised |-> "none", mismatch |-> mismatch]
             ELSE FindOffset(indices, k + 1, original, latest, indices[k])

MergeValue_always(v1, v2) == v2

\* the value of a slot of original after the row of latest aligned with it
\* has been merged
MergeValue(v1, v2) == IF v2 # Missing THEN v2 ELSE v1

MergedRow_replaced(row, latest_row) == latest_row

\* l.620-623: row = original[i]; row[1] = value unless the value is None
MergedRow(row, latest_row) == <<row[1], MergeValue(row[2], latest_row[2])>>

MergeRows_short(original, latest, index) ==
    [p \in 1..Len(original) |->
        IF p > index /\ p - index < Len(latest)
            THEN MergedRow(original[p], latest[p - index])
            ELSE original[p]]

\* the second while loop: the rows of latest written over original from `index` on
MergeRows(original, latest, index) ==
    [p \in 1..Len(original) |->
        IF p > index /\ p - index <= Len(latest)
            THEN MergedRow(original[p], latest[p - index])
            ELSE original[p]]

\* merge(logger_interval, original, latest): original after the call, the
\* error it raised, the offset used and whether the inner loop met two
\* different values
merge(logger_interval, original, latest) ==
    IF latest = <<>>
        THEN [timeline |-> original, raised |-> "none", index |-> 0, mismatch |-> FALSE]
    ELSE IF original = <<>>
        THEN [timeline |-> original, raised |-> "IndexError", index |-> 0, mismatch |-> FALSE]
    ELSE LET index == MergeIndex(logger_interval, original, latest)
             found == FindOffset(MergeIndices(index), 1, original, latest, index)
         IN  IF found.raised # "none"
                 THEN [timeline |-> original, raised |-> found.raised,
                       index |-> found.index, mismatch |-> found.mismatch]
                 ELSE [timeline |-> MergeRows(original, latest, found.index),
                       raised |-> "none",
                       index |-> found.index, mismatch |-> found.mismatch]

\* two Timelines of one window: the same timestamps, slot by slot
SameWindow(a, b) ==
    /\ Len(a) = Len(b)
    /\ \A p \in 1..Len(a) : a[p][1] = b[p][1]

\* no slot of the same timestamp holds two different values
NoConflict(a, b) ==
    \A p \in 1..Len(a), q \in 1..Len(b) :
        (a[p][1] = b[q][1] /\ a[p][2] # Missing /\ b[q][2] # Missing) => a[p][2] = b[q][2]

NonMissing(array) == Len(array) - Len(bad_timestamps(array))

\* ---------------------------------------------------------------------
\* one call of merge() on an accumulated Timeline and a later pass
\* ---------------------------------------------------------------------
InitMerge ==
    /\ SupervisorInit
    /\ rc = NoFetchLoop
    /\ np = NoPass
    /\ dw = NoDewpoint
    /\ iv = NoInterval
    /\ \E interval \in LoggerIntervals :
           \E original \in Timelines(interval) :
               \E latest \in Timelines(interval) \cup {<<>>} :
                   mg = [stage |-> "called", logger_interval |-> interval,
                         before |-> original, latest |-> latest,
                         original |-> original, raised |-> "none",
                         index |-> 0, mismatch |-> FALSE]

MergeCall ==
    /\ mg.stage = "called"
    /\ LET m == merge(mg.logger_interval, mg.before, mg.latest)
       IN  mg' = [mg EXCEPT !.stage = "merged", !.original = m.timeline,
                            !.raised = m.raised, !.index = m.index,
                            !.mismatch = m.mismatch]
    /\ UNCHANGED <<supervisor, rc, np, dw, iv>>

NextMerge == MergeCall

SpecMerge == InitMerge /\ [][NextMerge]_vars

\* =====================================================================
\* Reconciliation Engine: the download loop of SHT3XService.fetch_logged_data
\* =====================================================================
\* the windows a pass may resolve to: the oldest timestamp and the number
\* of slots the Smart Gadget reports for it
WindowOldests == {0, 10}
WindowSlots == {2, 3}

\* the value the Smart Gadget has logged at a timestamp
LoggedValue(ms) == (ms \div 10) % 2

\* the Timeline of one stream that a pass over the window leaves in the
\* delegate: one row per logger interval after `oldest`, the rows whose
\* notification was lost holding None
PassTimeline(interval, oldest, slots, lost) ==
    [p \in 1..slots |->
        <<oldest + p * interval,
          IF p \in lost THEN Missing ELSE LoggedValue(oldest + p * interval)>>]

\* what SHT3X.fetch_logged_data returns for one stream
PassResult(enable, interval, oldest, slots, lost) ==
    IF enable THEN PassTimeline(interval, oldest, slots, lost) ELSE <<>>

\* the requested window: <<>> while the caller gave no hints (oldest=None, newest=None);
\* also delegate.oldest and delegate.newest before the first pass
NoHints == <<>>

Last(s) == s[Len(s)]

Min(a, b) == IF a < b THEN a ELSE b

InitFetch ==
    /\ SupervisorInit
    /\ mg = NoMerge
    /\ np = NoPass
    /\ dw = NoDewpoint
    /\ iv = NoInterval
    /\ \E n \in 1..MaxIterations, et \in BOOLEAN, eh \in BOOLEAN, interval \in LoggerIntervals :
           rc = [stage |-> "loop", num_iterations |-> n, iteration |-> 0,
                 enable_temperature |-> et, enable_humidity |-> eh,
                 interval |-> interval,
                 temperatures |-> <<>>, humidities |-> <<>>,
                 window |-> NoHints, delegate |-> NoHints,
                 passes |-> 0, pass_after_complete |-> FALSE,
                 pass_disabled |-> <<>>,
                 mismatch |-> FALSE, stop |-> "none", result |-> "none"]

FetchEnds(r, stop, result) ==
    [r EXCEPT !.stage = "done", !.stop = stop, !.result = result]

\* l.632-633: nothing is left to request
FetchBreak ==
    /\ rc.stage = "loop"
    /\ ~rc.enable_temperature /\ ~rc.enable_humidity
    /\ rc' = FetchEnds(rc, "disabled", "returned")
    /\ UNCHANGED <<supervisor, mg, np, dw, iv>>

StillEnabled_or_first(bad, latest) ==
    IF Len(bad) > 0 THEN Last(bad) >= latest[1][1] ELSE FALSE

\* l.655-664: whether a stream is requested again
StillEnabled(bad, latest) ==
    IF Len(bad) > 0 THEN Last(bad) > latest[1][1] ELSE FALSE

\* l.661-664 index latest[0] of a stream that still has missing slots
EnableRaises(bad, latest) == Len(bad) > 0 /\ latest = <<>>

\* l.695-700: the window requested for the next pass
NextWindow(interval, bad_t, bad_h, delegate_oldest, delegate_newest) ==
    LET oldest_t == IF bad_t # <<>> THEN bad_t[1] ELSE delegate_oldest
        oldest_h == IF bad_h # <<>> THEN bad_h[1] ELSE delegate_oldest
        newest_t == IF bad_t # <<>> THEN Last(bad_t) ELSE delegate_newest
        newest_h == IF bad_h # <<>> THEN Last(bad_h) ELSE delegate_newest
    IN  <<Min(oldest_t, oldest_h) - 2 * interval, Max(newest_t, newest_h) + 2 * interval>>

LoopExhausted_late(iteration, num_iterations) == iteration > num_iterations

\* l.630: range(num_iterations) has no further item
LoopExhausted(iteration, num_iterations) == iteration = num_iterations

\* l.636: a download pass is started through _process
PassStarted(r) ==
    [r EXCEPT !.passes = @ + 1,
              !.pass_after_complete =
                  @ \/ (/\ r.iteration > 0
                        /\ bad_timestamps(r.temperatures) = <<>>
                        /\ bad_timestamps(r.humidities) = <<>>),
              !.pass_disabled = Append(@, <<r.enable_temperature, r.enable_humidity>>)]

\* the errors that _process lets through to fetch_logged_data
PassErrors == {"ValueError", "BTLEDisconnectError"}

\* an iteration of the for loop whose download pass raises, l.636-640
FetchPassRaises(error) ==
    /\ rc.stage = "loop"
    /\ rc.enable_temperature \/ rc.enable_humidity
    /\ rc' = FetchEnds(PassStarted(rc), "error", error)
    /\ UNCHANGED <<supervisor, mg, np, dw, iv>>

\* an iteration of the for loop whose download pass returns, l.636-700: the
\* pass, the merge of what it returned, and the decision on the next pass
FetchPass(oldest, slots, lost_t, lost_h) ==
    /\ rc.stage = "loop"
    /\ rc.enable_temperature \/ rc.enable_humidity
    /\ LET r == PassStarted(rc)
           latest_t == PassResult(rc.enable_temperature, rc.interval, oldest, slots, lost_t)
           latest_h == PassResult(rc.enable_humidity, rc.interval, oldest, slots, lost_h)
           merged_t == IF rc.iteration = 0
                           THEN [timeline |-> latest_t, raised |-> "none", mismatch |-> FALSE]
                           ELSE merge(rc.interval, rc.temperatures, latest_t)
           merged_h == IF rc.iteration = 0
                           THEN [timeline |-> latest_h, raised |-> "none", mismatch |-> FALSE]
                           ELSE merge(rc.interval, rc.humidities, latest_h)
           bad_timestamps_t == bad_timestamps(merged_t.timeline)
           bad_timestamps_h == bad_timestamps(merged_h.timeline)
           m == [r EXCEPT !.delegate = <<oldest, oldest + slots * rc.interval>>,
                          !.temperatures = merged_t.timeline,
                          !.humidities = merged_h.timeline,
                          !.mismatch = @ \/ merged_t.mismatch \/ merged_h.mismatch]
       IN  IF merged_t.raised # "none"
               THEN rc' = FetchEnds([r EXCEPT !.mismatch = merged_t.mismatch],
                                    "error", merged_t.raised)
           ELSE IF merged_h.raised # "none"
               THEN rc' = FetchEnds([m EXCEPT !.humidities = rc.humidities],
                                    "error", merged_h.raised)
           ELSE IF bad_timestamps_t = <<>> /\ bad_timestamps_h = <<>>
               THEN rc' = FetchEnds(m, "complete", "returned")
           ELSE IF EnableRaises(bad_timestamps_t, latest_t)
                       \/ EnableRaises(bad_timestamps_h, latest_h)
               THEN rc' = FetchEnds(m, "error", "IndexError")
           ELSE LET n == [m EXCEPT
                             !.enable_temperature = StillEnabled(bad_timestamps_t, latest_t),
                             !.enable_humidity = StillEnabled(bad_timestamps_h, latest_h),
                             !.window = NextWindow(rc.interval, bad_timestamps_t,
                                                   bad_timestamps_h,
                                                   m.delegate[1], m.delegate[2]),
                             !.iteration = @ + 1]
                IN  IF LoopExhausted(n.iteration, rc.num_iterations)
                        THEN rc' = FetchEnds(n, "iterations", "returned")
                        ELSE rc' = n
    /\ UNCHANGED <<supervisor, mg, np, dw, iv>>

NextFetch ==
    \/ FetchBreak
    \/ \E error \in PassErrors : FetchPassRaises(error)
    \/ \E oldest \in WindowOldests, slots \in WindowSlots :
           \E lost_t \in SUBSET (1..slots), lost_h \in SUBSET (1..slots) :
               FetchPass(oldest, slots, lost_t, lost_h)

SpecFetch == InitFetch /\ [][NextFetch]_vars

\* =====================================================================
\* Download pass: SHT3X.fetch_logged_data and its NotificationHandler
\* =====================================================================
\* Timestamps are kept in milliseconds throughout; the handler holds them in
\* seconds (* 1e-3) and stores str(datetime.fromtimestamp(...)) in a row,
\* which is one-to-one with the timestamp it is made from.  A row of a
\* stream's list is <<run_number, timestamp, value>>.
MaxEntries == 2
RunIndices == {1, 2, 3}
ChunkSizes == {1, 2}
Handles == {"TEMPERATURE_HANDLE", "HUMIDITY_HANDLE"}

\* the logger interval, oldest and newest timestamp read back for the pass
PassWindows == {[interval |-> 10, oldest |-> 0, newest |-> 30]}

run_number_offset == 1
max_run_number_repeats == 5

\* NotificationHandler.initialize, called with the window of the pass
initialize(logger_interval, oldest_timestamp, newest_timestamp, enable_temperature, enable_humidity) ==
    [temperatures |-> <<>>, humidities |-> <<>>,
     temperatures_finished |-> ~enable_temperature,
     humidities_finished |-> ~enable_humidity,
     finished |-> FALSE,
     logger_interval |-> logger_interval,
     oldest_timestamp |-> oldest_timestamp,
     newest_timestamp |-> newest_timestamp,
     previous_temperature_run_number |-> -1,
     previous_humidity_run_number |-> -1,
     temperature_run_number_repeats |-> 0,
     humidity_run_number_repeats |-> 0]

BulkRows_from_zero(h, r, n) ==
    [i \in 1..n |->
        LET run_number == r + (i - 1)
            timestamp == h.newest_timestamp - run_number * h.logger_interval
        IN  <<run_number, timestamp, LoggedValue(timestamp)>>]

\* l.244-249: the rows a bulk chunk of n values with leading run index r appends
BulkRows(h, r, n) ==
    [i \in 1..n |->
        LET run_number == r - run_number_offset + (i - 1)
            timestamp == h.newest_timestamp - run_number * h.logger_interval
        IN  <<run_number, timestamp, LoggedValue(timestamp)>>]

\* handleNotification for logged data (n > 0), l.230-249
HandleBulk(h, handle, r, n) ==
    IF handle = "TEMPERATURE_HANDLE"
        THEN [h EXCEPT !.temperatures = @ \o BulkRows(h, r, n)]
        ELSE [h EXCEPT !.humidities = @ \o BulkRows(h, r, n)]

StreamFinished_before_oldest(h, run_number, repeats) ==
    \/ h.newest_timestamp - run_number * h.logger_interval < h.oldest_timestamp
    \/ repeats > max_run_number_repeats

\* l.259-260 and l.272-273: the stream has been downloaded, or its run number
\* has stopped changing
StreamFinished(h, run_number, repeats) ==
    \/ h.newest_timestamp - run_number * h.logger_interval <= h.oldest_timestamp
    \/ repeats > max_run_number_repeats

HandleSingle_fills(h, handle) ==
    IF handle = "TEMPERATURE_HANDLE"
        THEN [h EXCEPT !.temperatures = @ \o BulkRows(h, 1, 1)]
        ELSE [h EXCEPT !.humidities = @ \o BulkRows(h, 1, 1)]

\* handleNotification for a single value, l.251-284
HandleSingle(h, handle) ==
    LET g == IF handle = "TEMPERATURE_HANDLE"
                 THEN IF h.temperatures # <<>>
                          THEN LET run_number == Last(h.temperatures)[1] + run_number_offset
                               IN  [h EXCEPT
                                       !.temperatures_finished =
                                           @ \/ StreamFinished(h, run_number,
                                                               h.temperature_run_number_repeats),
                                       !.temperature_run_number_repeats =
                                           IF h.previous_temperature_run_number = run_number
                                               THEN @ + 1 ELSE 0,
                                       !.previous_temperature_run_number = run_number]
                          ELSE h
                 ELSE IF h.humidities # <<>>
                          THEN LET run_number == Last(h.humidities)[1] + run_number_offset
                               IN  [h EXCEPT
                                       !.humidities_finished =
                                           @ \/ StreamFinished(h, run_number,
                                                               h.humidity_run_number_repeats),
                                       !.humidity_run_number_repeats =
                                           IF h.previous_humidity_run_number = run_number
                                               THEN @ + 1 ELSE 0,
                                       !.previous_humidity_run_number = run_number]
                          ELSE h
    IN  [g EXCEPT !.finished = g.temperatures_finished /\ g.humidities_finished]

NotifyAfter_left_on(notify, h) == notify

\* the notifications the handler has switched off on the Smart Gadget, l.262 and l.275
NotifyAfter(notify, h) ==
    [temperature |-> notify.temperature /\ ~h.temperatures_finished,
     humidity |-> notify.humidity /\ ~h.humidities_finished]

\* history of the pass, per stream: how many single-value notifications have
\* arrived in a row after the last bulk chunk of the stream (counted up to
\* max_run_number_repeats + 4), and the longest such row so far (counted up
\* to max_run_number_repeats)
NoSingles == [temperature |-> 0, humidity |-> 0]

OfHandle(handle) == IF handle = "TEMPERATURE_HANDLE" THEN "temperature" ELSE "humidity"

\* the hints a caller gives for the window of the pass (None: no hint)
HintOldests == {None, 10}
HintNewests == {None, 20}

\* NotificationHandler.__init__, l.199: the handler before the pass prepares it
Unprepared == initialize(-1, 0, 0, TRUE, TRUE)

\* what has been read back from the Smart Gadget before l.318
NotRead == [interval |-> 0, oldest |-> 0, newest |-> 0]

\* one write to, or read from, the Smart Gadget, or the call that prepares the handler
Op(name, value) == [op |-> name, value |-> value]

\* SHT3X.fetch_logged_data is called, l.302-303
InitPass ==
    /\ SupervisorInit
    /\ mg = NoMerge
    /\ rc = NoFetchLoop
    /\ dw = NoDewpoint
    /\ iv = NoInterval
    /\ \E et \in BOOLEAN, eh \in BOOLEAN, oldest \in HintOldests, newest \in HintNewests :
           np = [stage |-> IF ~et /\ ~eh THEN "done" ELSE "enable",
                 result |-> IF ~et /\ ~eh THEN "returned" ELSE "none",
                 enable_temperature |-> et, enable_humidity |-> eh,
                 oldest |-> oldest, newest |-> newest,
                 read |-> NotRead, log |-> <<>>,
                 delegate |-> Unprepared,
                 notify |-> [temperature |-> FALSE, humidity |-> FALSE],
                 downloading |-> FALSE, polls |-> 0,
                 singles |-> NoSingles, most |-> NoSingles,
                 temperatures |-> <<>>, humidities |-> <<>>]

\* l.306-309: the notifications of the requested streams are enabled
EnableNotifications ==
    /\ np.stage = "enable"
    /\ np' = [np EXCEPT
                 !.stage = "hints",
                 !.notify = [temperature |-> np.enable_temperature,
                             humidity |-> np.enable_humidity],
                 !.log = @ \o (IF np.enable_temperature
                                   THEN <<Op("enable_temperature_notifications", 1)>>
                                   ELSE <<>>)
                           \o (IF np.enable_humidity
                                   THEN <<Op("enable_humidity_notifications", 1)>>
                                   ELSE <<>>)]
    /\ UNCHANGED <<supervisor, mg, rc, dw, iv>>

\* l.312-315: the sync time and the hints for the window are written
WriteHints ==
    /\ np.stage = "hints"
    /\ np' = [np EXCEPT
                 !.stage = "read",
                 !.log = @ \o <<Op("set_sync_time", None),
                                Op("set_oldest_timestamp",
                                   IF np.oldest = None THEN 0 ELSE np.oldest)>>
                           \o (IF np.newest # None
                                   THEN <<Op("set_newest_timestamp", np.newest)>>
                                   ELSE <<>>)]
    /\ UNCHANGED <<supervisor, mg, rc, dw, iv>>

\* l.318-320: the Smart Gadget reports the interval and the window it will use
ReadBack(w) ==
    /\ np.stage = "read"
    /\ np' = [np EXCEPT
                 !.stage = "prepare",
                 !.read = w,
                 !.log = @ \o <<Op("logger_interval", w.interval),
                                Op("oldest_timestamp", w.oldest),
                                Op("newest_timestamp", w.newest)>>]
    /\ UNCHANGED <<supervisor, mg, rc, dw, iv>>

PrepareArguments_hints(oldest, newest, read) ==
    [interval |-> read.interval, oldest |-> oldest, newest |-> newest]

\* l.323: the arguments given to the handler
PrepareArguments(oldest, newest, read) == read

\* l.323-324: the handler is prepared and the start command is written
PrepareAndStart ==
    /\ np.stage = "prepare"
    /\ LET w == PrepareArguments(np.oldest, np.newest, np.read)
       IN  np' = [np EXCEPT
                     !.stage = "waiting",
                     !.delegate = initialize(w.interval, w.oldest, w.newest,
                                             np.enable_temperature, np.enable_humidity),
                     !.downloading = TRUE,
                     !.log = @ \o <<Op("prepare", w), Op("START_LOGGER_DOWNLOAD", 1)>>]
    /\ UNCHANGED <<supervisor, mg, rc, dw, iv>>

\* the link breaks during one of the writes or reads of l.306-324
SetupDisconnected ==
    /\ np.stage \in {"enable", "hints", "read", "prepare"}
    /\ np' = [np EXCEPT !.stage = "done", !.result = "BTLEDisconnectError"]
    /\ UNCHANGED <<supervisor, mg, rc, dw, iv>>

\* l.329-335: the stop command and the notifications switched off before the return
ReturnOps(p) ==
    <<Op("START_LOGGER_DOWNLOAD", 0)>>
        \o (IF p.enable_temperature THEN <<Op("disable_temperature_notifications", 0)>> ELSE <<>>)
        \o (IF p.enable_humidity THEN <<Op("disable_humidity_notifications", 0)>> ELSE <<>>)

AfterWait_either(p, h, notify) ==
    IF h.temperatures_finished \/ h.humidities_finished
        THEN [p EXCEPT !.stage = "done", !.result = "returned",
                       !.delegate = h,
                       !.notify = [temperature |-> FALSE, humidity |-> FALSE],
                       !.downloading = FALSE,
                       !.log = @ \o ReturnOps(p),
                       !.temperatures = h.temperatures,
                       !.humidities = h.humidities]
        ELSE [p EXCEPT !.delegate = h, !.notify = notify, !.polls = (@ + 1) % 2]

\* l.327-342: the test that ends the wait loop, the stop command, the
\* notifications switched off and the lists returned
AfterWait(p, h, notify) ==
    IF h.temperatures_finished /\ h.humidities_finished
        THEN [p EXCEPT !.stage = "done", !.result = "returned",
                       !.delegate = h,
                       !.notify = [temperature |-> FALSE, humidity |-> FALSE],
                       !.downloading = FALSE,
                       !.log = @ \o ReturnOps(p),
                       !.temperatures = h.temperatures,
                       !.humidities = h.humidities]
        ELSE [p EXCEPT !.delegate = h, !.notify = notify, !.polls = (@ + 1) % 2]

Stream(h, handle) == IF handle = "TEMPERATURE_HANDLE" THEN h.temperatures ELSE h.humidities

Notifying(handle) ==
    IF handle = "TEMPERATURE_HANDLE" THEN np.notify.temperature ELSE np.notify.humidity

\* waitForNotifications(1) dispatches a chunk of logged data
BulkNotification(handle, r, n) ==
    /\ np.stage = "waiting"
    /\ Notifying(handle)
    /\ Len(Stream(np.delegate, handle)) + n <= MaxEntries
    \* the Smart Gadget streams from newest to oldest
    /\ Stream(np.delegate, handle) # <<>> =>
           r - run_number_offset > Last(Stream(np.delegate, handle))[1]
    /\ np' = AfterWait([np EXCEPT !.singles[OfHandle(handle)] = 0],
                       HandleBulk(np.delegate, handle, r, n), np.notify)
    /\ UNCHANGED <<supervisor, mg, rc, dw, iv>>

\* waitForNotifications(1) dispatches a single-value notification
SingleNotification(handle) ==
    /\ np.stage = "waiting"
    /\ Notifying(handle)
    /\ LET h == HandleSingle(np.delegate, handle)
           count == IF Stream(np.delegate, handle) = <<>>
                        THEN 0
                        ELSE Min(np.singles[OfHandle(handle)] + 1, max_run_number_repeats + 4)
       IN  np' = AfterWait([np EXCEPT !.singles[OfHandle(handle)] = count,
                                      !.most[OfHandle(handle)] =
                                          Max(@, Min(count, max_run_number_repeats))],
                           h, NotifyAfter(np.notify, h))
    /\ UNCHANGED <<supervisor, mg, rc, dw, iv>>

\* waitForNotifications(1) dispatches a notification of another handle, l.242 and l.282
UnhandledNotification ==
    /\ np.stage = "waiting"
    /\ np' = [np EXCEPT !.stage = "done", !.result = "ValueError"]
    /\ UNCHANGED <<supervisor, mg, rc, dw, iv>>

\* waitForNotifications(1) returns after a second without a notification
WaitTimeout ==
    /\ np.stage = "waiting"
    /\ np' = AfterWait(np, np.delegate, np.notify)
    /\ UNCHANGED <<supervisor, mg, rc, dw, iv>>

\* the link breaks while waiting
WaitDisconnected ==
    /\ np.stage = "waiting"
    /\ np' = [np EXCEPT !.stage = "done", !.result = "BTLEDisconnectError"]
    /\ UNCHANGED <<supervisor, mg, rc, dw, iv>>

NextPass ==
    \/ EnableNotifications
    \/ WriteHints
    \/ \E w \in PassWindows : ReadBack(w)
    \/ PrepareAndStart
    \/ SetupDisconnected
    \/ \E handle \in Handles, r \in RunIndices, n \in ChunkSizes : BulkNotification(handle, r, n)
    \/ \E handle \in Handles : SingleNotification(handle)
    \/ UnhandledNotification
    \/ WaitTimeout
    \/ WaitDisconnected

SpecPass == InitPass /\ [][NextPass]_vars

\* the thread of the pass keeps running its wait loop; what the Smart Gadget
\* sends, and whether it sends anything, is not in the program's hands
SpecPassFair == SpecPass /\ WF_vars(NextPass)

\* =====================================================================
\* dewpoint() (smartgadget/__init__.py)
\* =====================================================================
\* Temperatures are in hundredths of a degree C, so that the bound 0.01 of
\* the frost models is the integer 1; humidities are in %RH.
Deg(d) == 100 * d

DewModels == {"hardy", "wexler", "sonntag", "clausiusclapeyron", "ardenbuck", "magnus",
              "wagnerpruss", "simple"}

\* the arguments tried: the temperatures around every bound of a model, the
\* humidities around 0, 50 and 100, every model and a name that is none
DewTemperatures ==
    {Deg(d) : d \in {-101, -100, -71, -70, -66, -65, -46, -45, -41, -40, -21, -20, -1,
                     0, 1, 20, 50, 51, 60, 61, 100, 101, 350, 351}} \cup {1, 2}
DewHumidities == {-1, 0, 1, 49, 50, 100, 101}
DewModelNames == DewModels \cup {"wrong"}

HumidityTooHigh_never(humidity) == FALSE

\* l.171
HumidityTooHigh(humidity) == humidity > 100

\* l.195-336: the temperature test of the branch of a model that has one
TemperatureOutOfRange(temperature, model, isdew) ==
    CASE model \in {"wexler", "sonntag"} ->
             IF isdew THEN temperature < 0 \/ temperature > Deg(100)
                      ELSE temperature < Deg(-100) \/ temperature > 1
      [] model = "ardenbuck" ->
             IF isdew THEN temperature < 0 \/ temperature > Deg(50)
                      ELSE temperature < Deg(-40) \/ temperature > 0
      [] model = "magnus" ->
             IF isdew THEN temperature < Deg(-45) \/ temperature > Deg(60)
                      ELSE temperature < Deg(-65) \/ temperature > 1
      [] model = "wagnerpruss" ->
             IF isdew THEN temperature < Deg(-20) \/ temperature > Deg(350)
                      ELSE temperature < Deg(-70) \/ temperature > 0
      [] OTHER -> FALSE

\* what the arithmetic of a model does with arguments that have passed its
\* tests: log(0) for a humidity of 0 is a ValueError of the math module,
\* l.274 divides by temperature / (c + temperature)
DewArithmetic(temperature, humidity, model) ==
    IF model = "ardenbuck" /\ temperature = 0 THEN "ZeroDivisionError"
    ELSE IF humidity = 0 THEN "ValueError"
    ELSE "returned"

\* dewpoint(temperature, humidity, model=model, isdew=isdew): the error raised,
\* or "returned"
dewpoint(temperature, humidity, model, isdew) ==
    IF humidity < 0 THEN "ValueError"
    ELSE IF HumidityTooHigh(humidity) THEN "ValueError"
    ELSE IF model \in {"hardy", "clausiusclapeyron"}
        THEN DewArithmetic(temperature, humidity, model)
    ELSE IF model \in {"wexler", "sonntag", "ardenbuck", "magnus", "wagnerpruss"}
        THEN IF TemperatureOutOfRange(temperature, model, isdew)
                 THEN "ValueError"
                 ELSE DewArithmetic(temperature, humidity, model)
    ELSE IF model = "simple"
        THEN IF humidity < 50 THEN "ValueError" ELSE "returned"
    ELSE "ValueError"

InitDewpoint ==
    /\ SupervisorInit
    /\ mg = NoMerge
    /\ rc = NoFetchLoop
    /\ np = NoPass
    /\ iv = NoInterval
    /\ \E temperature \in DewTemperatures, humidity \in DewHumidities,
          model \in DewModelNames, isdew \in BOOLEAN :
           dw = [stage |-> "called", temperature |-> temperature, humidity |-> humidity,
                 model |-> model, isdew |-> isdew, result |-> "none"]

DewpointCall ==
    /\ dw.stage = "called"
    /\ dw' = [dw EXCEPT !.stage = "done",
                        !.result = dewpoint(dw.temperature, dw.humidity, dw.model, dw.isdew)]
    /\ UNCHANGED <<supervisor, mg, rc, np, iv>>

NextDewpoint == DewpointCall

SpecDewpoint == InitDewpoint /\ [][NextDewpoint]_vars

\* =====================================================================
\* The logger interval used by SHT3XService.fetch_logged_data
\* =====================================================================
\* The interval is kept in three places: on the Smart Gadget, in the
\* notification handler of the session (set when a pass prepares the
\* handler with the value read back) and in a local of fetch_logged_data.
DeviceIntervals == {10, 20}

\* the interval of a handler that no pass has prepared, NotificationHandler.__init__
UnpreparedInterval == -1

\* the interval a pass leaves in the handler: the one read back, sht3x.py l.318 and l.323
PreparedInterval(logger_interval) == logger_interval

InitInterval ==
    /\ SupervisorInit
    /\ mg = NoMerge
    /\ rc = NoFetchLoop
    /\ np = NoPass
    /\ dw = NoDewpoint
    /\ \E ms \in DeviceIntervals :
           iv = [stage |-> "idle", device |-> ms, handler |-> UnpreparedInterval,
                 interval |-> None, num_iterations |-> 0, iteration |-> 0,
                 reported |-> {}, used |-> {}]

\* SHT3X.set_logger_interval between two calls of fetch_logged_data
SetLoggerInterval(ms) ==
    /\ iv.stage \in {"idle", "returned"}
    /\ ms # iv.device
    /\ iv' = [iv EXCEPT !.device = ms]
    /\ UNCHANGED <<supervisor, mg, rc, np, dw>>

\* the session of the Smart Gadget is replaced by a new one, with a new handler
NewSession ==
    /\ iv.stage \in {"idle", "returned"}
    /\ iv.handler # UnpreparedInterval
    /\ iv' = [iv EXCEPT !.handler = UnpreparedInterval]
    /\ UNCHANGED <<supervisor, mg, rc, np, dw>>

\* SHT3XService.fetch_logged_data up to the loop, l.627-629
FetchReadsInterval(num_iterations) ==
    /\ iv.stage \in {"idle", "returned"}
    /\ iv' = [iv EXCEPT !.stage = "loop", !.interval = iv.handler,
                        !.num_iterations = num_iterations, !.iteration = 0,
                        !.reported = {}, !.used = {}]
    /\ UNCHANGED <<supervisor, mg, rc, np, dw>>

\* one iteration of the loop, l.630-700: the pass reads the interval back and
\* prepares the handler with it; after the first pass the lists are merged
\* with the local interval; while values are missing the next window is
\* computed with the local interval
FetchUsesInterval(missing) ==
    /\ iv.stage = "loop"
    /\ LET merged == IF iv.iteration > 0 THEN {iv.interval} ELSE {}
           window == IF missing THEN {iv.interval} ELSE {}
       IN  iv' = [iv EXCEPT
                     !.handler = PreparedInterval(iv.device),
                     !.reported = @ \cup {iv.device},
                     !.used = @ \cup merged \cup window,
                     !.iteration = @ + 1,
                     !.stage = IF ~missing \/ iv.iteration + 1 = iv.num_iterations
                                   THEN "returned" ELSE "loop"]
    /\ UNCHANGED <<supervisor, mg, rc, np, dw>>

\* an iteration whose pass raises, before or after it has prepared the handler
FetchPassFails(prepared) ==
    /\ iv.stage = "loop"
    /\ iv' = [iv EXCEPT
                 !.stage = "returned",
                 !.handler = IF prepared THEN PreparedInterval(iv.device) ELSE @,
                 !.reported = IF prepared THEN @ \cup {iv.device} ELSE @]
    /\ UNCHANGED <<supervisor, mg, rc, np, dw>>

NextInterval ==
    \/ \E prepared \in BOOLEAN : FetchPassFails(prepared)
    \/ \E ms \in DeviceIntervals : SetLoggerInterval(ms)
    \/ NewSession
    \/ \E num_iterations \in 1..MaxIterations : FetchReadsInterval(num_iterations)
    \/ \E missing \in BOOLEAN : FetchUsesInterval(missing)

SpecInterval == InitInterval /\ [][NextInterval]_vars

\* =====================================================================
\* Properties of the Connection Supervisor
\* =====================================================================
Idle == pc = "idle"

\* no call is running, or fetch_logged_data has just got control back from _process
AfterCall == pc \in {"idle", "f_pass_done"}

ConnectGadgetEnded == Idle /\ last.method = "connect_gadgets" /\ last.single

\* C1: connect_gadget with max_attempts = k, on a device without a cached session
\* whose every establishment attempt fails, makes exactly k attempts and then
\* fails: while an attempt is still to be made fewer than k have failed, and the
\* call that fails has made k of them.
C1_ExactlyKAttempts ==
    /\ (pc = "cg_connect" /\ frame.single) => frame.attempts < frame.k
    /\ (ConnectGadgetEnded /\ ~last.log[1].connected) =>
           /\ last.attempts = last.k
           /\ last.result = "BTLEDisconnectError" \/ last.value = "False"

C1_Witness ==
    /\ ConnectGadgetEnded
    /\ last.k = 2
    /\ last.attempts = 2
    /\ last.result = "BTLEDisconnectError"

\* C2: in one _process request with max_attempts = k the requested method is
\* executed at most k times, whether or not a session was cached at the start.
C2_AtMostKExecutions ==
    /\ frame.method = "_process" => frame.executions <= frame.k
    /\ last.method = "_process" => last.executions <= last.k

\* C3: a transient error of a request reaches the caller only with the budget
\* exhausted; while budget remains the failed execution drops the cached session
\* and goes on to establish a new one for the same method and device, the method
\* is executed again once a session is established, and the first execution that
\* succeeds ends the request with its result.
C3_Step ==
    LET ended == pc \in {"p_connect", "p_exec"} /\ pc' \in {"idle", "f_pass_done"}
        outcome == IF ended THEN last'.outcome ELSE frame'.outcome
        same == /\ frame'.method_name = frame.method_name
                /\ frame'.mac_address = frame.mac_address
    IN  /\ (ended /\ last'.result \in Transient) => retries_remaining' < 1
        /\ (pc = "p_exec" /\ outcome \in Transient /\ retries_remaining >= 1) =>
               /\ ~ended
               /\ pc' = "p_connect"
               /\ gadgets_connected'[frame.mac_address] = None
               /\ same
        /\ (pc = "p_connect" /\ ~ended) =>
               /\ same
               /\ pc' = "p_exec" <=> gadgets_connected'[frame.mac_address] # None
        /\ (pc = "p_exec" /\ outcome = "ok") => (ended /\ last'.result = "returned")
        /\ (ended /\ last'.result = "returned") => (pc = "p_exec" /\ outcome = "ok")

C3_RetriedLocally == [][C3_Step]_vars

C3_Witness ==
    /\ AfterCall
    /\ last.method = "_process"
    /\ last.result = "returned"
    /\ last.executions = 2
    /\ last.attempts = 1

\* C4: within one request a logger-interval write takes effect on the Smart
\* Gadget at most once, also when the method failed after the write.
C4_WriteAtMostOnce ==
    /\ frame.effects <= 1
    /\ last.effects <= 1

\* C5: when the session cannot be established within the budget, connect_gadget
\* with strict=True raises the disconnect error and with strict=False returns
\* False without an error; it returns True only if the device has a cached
\* session at that moment.
C5_StrictOrFalse ==
    ConnectGadgetEnded =>
        LET mac == last.mac_addresses[1]
            failed == ~last.log[1].connected
        IN  /\ (failed /\ last.strict) => last.result = "BTLEDisconnectError"
            /\ (failed /\ ~last.strict) => (last.result = "returned" /\ last.value = "False")
            /\ last.result = "BTLEDisconnectError" => (failed /\ last.strict)
            /\ last.value = "True" => gadgets_connected[mac] # None

C5_Witness ==
    /\ ConnectGadgetEnded
    /\ ~last.strict
    /\ last.result = "returned"
    /\ last.value = "False"

\* C6: connect_gadgets(ids, strict=False) goes through every device of ids, each
\* starting with the budget reset to max_attempts; the failed list holds exactly
\* the devices whose own attempts used up the budget, and a device that fails
\* makes max_attempts attempts whatever happened to the devices before it.
C6_PerDeviceBudget ==
    (Idle /\ last.method = "connect_gadgets" /\ ~last.strict) =>
        /\ last.result = "returned"
        /\ Len(last.log) = Len(last.mac_addresses)
        /\ \A i \in 1..Len(last.log) :
               /\ last.log[i].mac = last.mac_addresses[i]
               /\ last.log[i].budget = last.k
               /\ last.log[i].attempts <= last.k
               /\ ~last.log[i].connected => last.log[i].attempts = last.k
        /\ LET exhausted == SelectSeq(last.log, LAMBDA e : ~e.connected)
           IN  last.failed_connections = [i \in 1..Len(exhausted) |-> exhausted[i].mac]

C6_Witness ==
    /\ Idle
    /\ last.method = "connect_gadgets"
    /\ ~last.strict
    /\ Len(last.mac_addresses) = 2
    /\ last.failed_connections = <<last.mac_addresses[1]>>
    /\ last.mac_addresses[2] # last.mac_addresses[1]
    /\ last.log[2].connected
    /\ last.log[2].attempts = last.k

\* C7: after disconnect_gadget(id) the device has no cached session and is not
\* in the requested set, and no error reaches the caller; also when the teardown
\* raises and when id was not connected or not requested before.
C7_DisconnectGadget ==
    (Idle /\ last.method = "disconnect_gadget") =>
        /\ gadgets_connected[last.mac_address] = None
        /\ last.mac_address \notin requested_connections
        /\ last.result = "returned"

C7_Witness ==
    /\ Idle
    /\ last.method = "disconnect_gadget"
    /\ last.teardown_raised
    /\ last.was_requested

\* C8: after disconnect_gadgets() no device has a cached session and the
\* requested set is empty.
C8_DisconnectAll ==
    (Idle /\ last.method = "disconnect_gadgets") =>
        /\ \A d \in Devices : gadgets_connected[d] = None
        /\ requested_connections = {}

\* C9: whenever a _process request on a device that is not in the requested set
\* ends, by returning or by raising, the device has no cached session.
C9_TransientTornDown ==
    (AfterCall /\ last.method = "_process" /\ ~last.was_requested) =>
        gadgets_connected[last.mac_address] = None

\* C10: fetch_logged_data for a device without a cached session establishes the
\* session itself and returns the two timelines; no error comes from the
\* missing connect_gadget call.
C10_FetchWithoutConnect ==
    (Idle /\ last.method = "fetch_logged_data" /\ ~last.was_cached) =>
        last.result = "returned"

\* =====================================================================
\* Properties of merge()
\* =====================================================================
Merged == mg.stage = "merged"

\* C11: merging a later pass into the accumulated Timeline never changes the
\* value of a slot that was already non-missing; only missing slots receive
\* a value.
C11_FilledSlotsKept ==
    Merged => \A p \in 1..Len(mg.before) :
                  mg.before[p][2] # Missing => mg.original[p] = mg.before[p]

\* C12: merging two passes that hold different non-missing values at the same
\* slot raises an integrity error; the merge never completes having kept one
\* of the two values.
C12_MismatchRaises ==
    (Merged /\ ~NoConflict(mg.before, mg.latest)) => mg.raised = "AssertionError"

\* C13: a merge never lowers the number of non-missing slots of the
\* accumulated Timeline, and a slot that held a value before the merge is not
\* missing after it.
C13_NeverLosesValues ==
    Merged =>
        /\ Len(mg.original) = Len(mg.before)
        /\ NonMissing(mg.original) >= NonMissing(mg.before)
        /\ \A p \in 1..Len(mg.before) :
               mg.before[p][2] # Missing => mg.original[p][2] # Missing

C13_Witness ==
    /\ Merged
    /\ NonMissing(mg.original) > NonMissing(mg.before)
    /\ \E p \in 1..Len(mg.before) :
           /\ p > mg.index
           /\ p - mg.index <= Len(mg.latest)
           /\ mg.before[p][2] # Missing
           /\ mg.latest[p - mg.index][2] = Missing

\* C14: merging a Timeline with an identical copy of itself leaves it equal
\* to what it was, whatever its pattern of missing slots.
C14_Idempotent ==
    (Merged /\ mg.latest = mg.before) =>
        /\ mg.raised = "none"
        /\ mg.original = mg.before

C14_Witness ==
    /\ Merged
    /\ mg.latest = mg.before
    /\ Len(mg.before) >= 2
    /\ mg.before[1][2] # Missing
    /\ mg.before[2][2] # Missing
    /\ mg.before[1][2] # mg.before[2][2]
    /\ bad_timestamps(mg.before) # <<>>

\* C15 as stated: for any two passes without conflicting non-missing values
\* at the same slot, merging the later into the earlier gives the same
\* Timeline whichever of the two came first.
C15_Commutative ==
    (Merged /\ mg.latest # <<>> /\ NoConflict(mg.before, mg.latest)) =>
        /\ mg.raised = "none"
        /\ mg.original = merge(mg.logger_interval, mg.latest, mg.before).timeline

\* C15, amended: for two passes over the same window (the same timestamps
\* slot by slot) without conflicting non-missing values, merging the later
\* into the earlier gives the same Timeline whichever of the two came first.
C15_CommutativeSameWindow ==
    (Merged /\ SameWindow(mg.before, mg.latest) /\ NoConflict(mg.before, mg.latest)) =>
        /\ mg.raised = "none"
        /\ mg.original = merge(mg.logger_interval, mg.latest, mg.before).timeline

C15_Witness ==
    /\ Merged
    /\ SameWindow(mg.before, mg.latest)
    /\ NoConflict(mg.before, mg.latest)
    /\ mg.before # mg.latest
    /\ mg.original # mg.before
    /\ mg.original # mg.latest

\* =====================================================================
\* Properties of the download loop
\* =====================================================================
FetchDone == rc.stage = "done"

Complete ==
    /\ bad_timestamps(rc.temperatures) = <<>>
    /\ bad_timestamps(rc.humidities) = <<>>

\* what holds of every call, whatever ends it: at most num_iterations passes,
\* none of them started with both streams complete
C16_Passes ==
    /\ rc.passes <= rc.num_iterations
    /\ ~rc.pass_after_complete
    /\ (rc.stage = "loop" /\ rc.iteration > 0) =>
           (~Complete /\ rc.passes < rc.num_iterations)

C17_NeverFailsOnMissing ==
    (FetchDone /\ rc.result \notin PassErrors) => rc.result = "returned"

\* C20 (merge part): a merge that meets two different values at the offset it
\* uses ends the call with the integrity error at once.
C20_MismatchReachesCaller ==
    rc.mismatch => (FetchDone /\ rc.result = "AssertionError")

\* =====================================================================
\* Properties of the download pass
\* =====================================================================
PassReturned == np.stage = "done" /\ np.result = "returned"

\* the rows of a list are one per logger interval of the window of the pass,
\* oldest first, the last one at the newest timestamp
WindowShaped(rows, h) ==
    LET n == (h.newest_timestamp - h.oldest_timestamp) \div h.logger_interval
    IN  /\ Len(rows) = n
        /\ \A p \in 1..Len(rows) :
               rows[p][2] = h.newest_timestamp - (n - p) * h.logger_interval

\* C18: whatever notifications were received in a pass, the Timeline of each
\* requested stream has floor((newest - oldest) / interval) entries with
\* ascending timestamps exactly one interval apart that end at newest.
C18_TimelineShape ==
    PassReturned =>
        /\ np.enable_temperature => WindowShaped(np.temperatures, np.delegate)
        /\ np.enable_humidity => WindowShaped(np.humidities, np.delegate)

\* C19: every download pass eventually ends, whatever the Smart Gadget sends
\* or fails to send after the start command.
C19_PassEnds == <>(np.stage = "done")

\* =====================================================================
\* Properties of the attempt budget
\* =====================================================================
\* C21: the attempt budget is at least 1 in every reachable state;
\* set_max_attempts(n) returns without an error and stores 1 for n < 1 and
\* n for n >= 1.
C21_BudgetAtLeastOne ==
    /\ max_attempts >= 1
    /\ (Idle /\ last.method = "set_max_attempts") =>
           /\ last.result = "returned"
           /\ last.max_attempts < 1 => max_attempts = 1
           /\ last.max_attempts >= 1 => max_attempts = last.max_attempts

C21_Witness ==
    /\ Idle
    /\ last.method = "set_max_attempts"
    /\ last.max_attempts < 0
    /\ max_attempts = 1

\* =====================================================================
\* Properties of dewpoint()
\* =====================================================================
\* the validity range of a model that has one, as the tests of the package
\* state it: <<lowest, highest>> temperature of the dew and of the frost branch
DewRange(model, isdew) ==
    CASE model \in {"wexler", "sonntag"} -> IF isdew THEN <<0, Deg(100)>> ELSE <<Deg(-100), 1>>
      [] model = "ardenbuck" -> IF isdew THEN <<0, Deg(50)>> ELSE <<Deg(-40), 0>>
      [] model = "magnus" -> IF isdew THEN <<Deg(-45), Deg(60)>> ELSE <<Deg(-65), 1>>
      [] model = "wagnerpruss" -> IF isdew THEN <<Deg(-20), Deg(350)>> ELSE <<Deg(-70), 0>>

OutOfDomain ==
    \/ dw.humidity < 0
    \/ dw.humidity > 100
    \/ dw.model \notin DewModels
    \/ /\ dw.model \in {"wexler", "sonntag", "ardenbuck", "magnus", "wagnerpruss"}
       /\ \/ dw.temperature < DewRange(dw.model, dw.isdew)[1]
          \/ dw.temperature > DewRange(dw.model, dw.isdew)[2]
    \/ dw.model = "simple" /\ dw.humidity < 50

\* C22: dewpoint raises ValueError, and returns no value, for a humidity
\* below 0 or above 100, for a model name that is none, for a temperature
\* outside the range of the dew or frost branch of wexler, sonntag, ardenbuck,
\* magnus and wagnerpruss, and for a humidity below 50 with the simple model.
C22_OutOfDomainRaises ==
    (dw.stage = "done" /\ OutOfDomain) => dw.result = "ValueError"

C22_Witness ==
    /\ dw.stage = "done"
    /\ dw.model = "magnus"
    /\ ~dw.isdew
    /\ dw.temperature = 2
    /\ dw.humidity = 50
    /\ dw.result = "ValueError"

\* =====================================================================
\* Properties of the alignment of merge()
\* =====================================================================
\* the two Timelines lie on one grid of logger intervals
SameGrid == (mg.latest[1][1] - mg.before[1][1]) % mg.logger_interval = 0

\* C23: each non-missing value of the later pass that the merge writes goes
\* to the slot of the accumulated Timeline that has the timestamp of that
\* value, never to a neighbouring slot, whatever the offset between the first
\* timestamps of the two Timelines.
C23_WrittenAtOwnTimestamp ==
    (Merged /\ mg.raised = "none" /\ mg.latest # <<>> /\ SameGrid) =>
        \A j \in 1..Len(mg.latest) :
            (mg.latest[j][2] # Missing /\ mg.index + j <= Len(mg.before)) =>
                mg.before[mg.index + j][1] = mg.latest[j][1]

\* the candidate offsets that are not skipped, in the order they are tried
Candidates ==
    SelectSeq(MergeIndices(MergeIndex(mg.logger_interval, mg.before, mg.latest)),
              LAMBDA i : i >= 0)

Agreeing == {k \in 1..Len(Candidates) : ~ValueMismatch(mg.before, mg.latest, Candidates[k])}

\* C24: merge tries the offsets index, index-1, index+1, index-2, index+2 in
\* that order, skipping negative ones, and merges at the first one at which
\* every pair of non-missing values agrees; the 'merging value mismatch'
\* assertion fails only when the last candidate mismatches as well.
C24_FirstAgreeingCandidate ==
    (Merged /\ mg.latest # <<>>) =>
        IF Agreeing # {}
            THEN /\ mg.raised = "none"
                 /\ mg.index = Candidates[CHOOSE k \in Agreeing : \A l \in Agreeing : k <= l]
                 /\ mg.original = MergeRows(mg.before, mg.latest, mg.index)
            ELSE mg.raised = "AssertionError"

\* =====================================================================
\* Properties of the decision on the next pass
\* =====================================================================
\* a pass has returned, the loop body has run to its end and the loop goes on
Decided == rc.stage = "loop" /\ rc.iteration > 0

StillMissing(array) == {bad_timestamps(array)[k] : k \in 1..Len(bad_timestamps(array))}

SetMin(S) == CHOOSE x \in S : \A y \in S : x <= y

SetMax(S) == CHOOSE x \in S : \A y \in S : x >= y

\* C25: after a pass that leaves missing entries the window of the next pass
\* is exactly oldest = min(missing) - 2 * interval and newest = max(missing)
\* + 2 * interval over the timestamps still missing in the accumulated
\* Timelines, also when only one of the two streams still has missing entries.
C25_WindowIsGapSpan ==
    (Decided /\ (rc.enable_temperature \/ rc.enable_humidity)) =>
        LET missing == StillMissing(rc.temperatures) \cup StillMissing(rc.humidities)
        IN  rc.window = <<SetMin(missing) - 2 * rc.interval, SetMax(missing) + 2 * rc.interval>>

FirstOfLatest == rc.delegate[1] + rc.interval

C27_ChunkTimestamps ==
    [][\A handle \in Handles, r \in RunIndices, n \in ChunkSizes :
           BulkNotification(handle, r, n) =>
               LET h == np.delegate
                   before == Stream(np.delegate, handle)
                   after == Stream(np'.delegate, handle)
                   other == CHOOSE x \in Handles : x # handle
               IN  /\ Len(after) = Len(before) + n
                   /\ SubSeq(after, 1, Len(before)) = before
                   /\ \A i \in 0..(n - 1) :
                          after[Len(before) + 1 + i][2] =
                              h.newest_timestamp - (r - 1 + i) * h.logger_interval
                   /\ Stream(np'.delegate, other) = Stream(np.delegate, other)]_vars

C27_Witness ==
    /\ np.stage = "waiting"
    /\ Len(np.delegate.temperatures) = 2
    /\ np.delegate.temperatures[1][2] = 20
    /\ np.delegate.temperatures[2][2] = 10
    /\ np.delegate.humidities = <<>>

\* the oldest expected sample of the pass, the first slot of its Timeline
OldestExpected == np.delegate.oldest_timestamp + np.delegate.logger_interval

OldestReceived(handle) ==
    \E k \in 1..Len(Stream(np.delegate, handle)) :
        Stream(np.delegate, handle)[k][2] = OldestExpected

StreamEnabled(handle) ==
    IF handle = "TEMPERATURE_HANDLE" THEN np.enable_temperature ELSE np.enable_humidity

FinishedFlag(handle) ==
    IF handle = "TEMPERATURE_HANDLE"
        THEN np.delegate.temperatures_finished ELSE np.delegate.humidities_finished

C30_FinishedAtEighth ==
    (np.stage # "none") =>
        \A handle \in Handles :
            (StreamEnabled(handle) /\ FinishedFlag(handle) /\ ~OldestReceived(handle)) =>
                np.singles[OfHandle(handle)] = max_run_number_repeats + 3

\* C29: hang protection: for an enabled stream whose oldest packet never
\* arrives, if single-value notifications of the stream keep arriving then
\* the stream is eventually marked finished, whatever bulk chunks were
\* received before, also when no bulk chunk was received at all.
C29_HangProtection ==
    ([]<><<SingleNotification("TEMPERATURE_HANDLE")>>_vars) =>
        <>(np.stage # "none" /\ np.delegate.temperatures_finished)

\* C31: within a pass the finished flag of a stream never goes back to false,
\* whatever is notified afterwards; a stream that was not requested is
\* finished from the start; and the wait loop of the pass is left only when
\* both streams are finished.
C31_FinishedIsKept ==
    [][(np.stage = "waiting") =>
           /\ np.delegate.temperatures_finished => np'.delegate.temperatures_finished
           /\ np.delegate.humidities_finished => np'.delegate.humidities_finished
           /\ ~np.enable_temperature => np.delegate.temperatures_finished
           /\ ~np.enable_humidity => np.delegate.humidities_finished
           /\ (np'.stage = "done" /\ np'.result = "returned") =>
                  np'.delegate.temperatures_finished /\ np'.delegate.humidities_finished]_vars

\* one stream was finished by a notification while the other one goes on
C31_Witness ==
    /\ np.stage = "waiting"
    /\ np.enable_temperature /\ np.delegate.temperatures_finished
    /\ np.enable_humidity /\ ~np.delegate.humidities_finished
    /\ np.delegate.humidities # <<>>
    /\ np.singles.humidity >= 1

\* C32: a single-value notification never adds, removes or changes an entry
\* of the list of either stream; it changes only the finished flags and the
\* repeat counters.
C32_SingleKeepsEntries ==
    [][\A handle \in Handles :
           SingleNotification(handle) =>
               /\ np'.delegate.temperatures = np.delegate.temperatures
               /\ np'.delegate.humidities = np.delegate.humidities
               /\ np'.delegate.logger_interval = np.delegate.logger_interval
               /\ np'.delegate.oldest_timestamp = np.delegate.oldest_timestamp
               /\ np'.delegate.newest_timestamp = np.delegate.newest_timestamp]_vars

C32_Witness ==
    /\ np.stage = "waiting"
    /\ Len(np.delegate.temperatures) = 1
    /\ np.delegate.temperature_run_number_repeats = 2
    /\ np.singles.temperature = 3

\* C34: when a stream becomes finished during a pass its notifications are
\* switched off on the Smart Gadget; when the pass returns normally the
\* notifications of every stream enabled for the pass are off and the
\* download has been stopped.
C34_NotificationsOff ==
    (np.stage # "none") =>
        /\ np.delegate.temperatures_finished => ~np.notify.temperature
        /\ np.delegate.humidities_finished => ~np.notify.humidity
        /\ (np.stage = "done" /\ np.result = "returned") =>
               /\ ~np.notify.temperature
               /\ ~np.notify.humidity
               /\ ~np.downloading

C34_Witness ==
    /\ np.stage = "waiting"
    /\ np.downloading
    /\ np.enable_temperature /\ np.delegate.temperatures_finished /\ ~np.notify.temperature
    /\ np.enable_humidity /\ ~np.delegate.humidities_finished /\ np.notify.humidity

\* =====================================================================
\* Properties of the order of the steps of a pass
\* =====================================================================
\* the positions in the log of the pass at which an operation was made
Pos(name, value) ==
    {j \in 1..Len(np.log) : np.log[j].op = name /\ np.log[j].value = value}

Reads ==
    {j \in 1..Len(np.log) :
        np.log[j].op \in {"logger_interval", "oldest_timestamp", "newest_timestamp"}}

\* some operation of the set was made before position j
Earlier(positions, j) == \E i \in positions : i < j

\* C33: in every pass the sync time, the oldest bound (0 when none is given)
\* and the newest bound, when one is given, are written before the interval
\* and the window are read back; the handler is prepared from the values
\* read back, not from the requested ones; the notifications of every
\* requested stream are enabled and the handler is prepared before the start
\* command (1) is written; the stop command (0) is written only after the
\* wait loop has ended.
C33_StepOrder ==
    (np.stage # "none") =>
        /\ \A j \in Reads :
               /\ Earlier(Pos("set_sync_time", None), j)
               /\ Earlier(Pos("set_oldest_timestamp",
                              IF np.oldest = None THEN 0 ELSE np.oldest), j)
               /\ np.newest # None => Earlier(Pos("set_newest_timestamp", np.newest), j)
        /\ np.newest = None =>
               ~\E j \in 1..Len(np.log) : np.log[j].op = "set_newest_timestamp"
        /\ \A j \in 1..Len(np.log) :
               np.log[j].op = "prepare" =>
                   /\ np.log[j].value = np.read
                   /\ Cardinality({i \in Reads : i < j}) = 3
        /\ \A j \in Pos("START_LOGGER_DOWNLOAD", 1) :
               /\ Earlier(Pos("prepare", np.read), j)
               /\ np.enable_temperature =>
                      Earlier(Pos("enable_temperature_notifications", 1), j)
               /\ np.enable_humidity =>
                      Earlier(Pos("enable_humidity_notifications", 1), j)
        /\ \A j \in Pos("START_LOGGER_DOWNLOAD", 0) :
               /\ Earlier(Pos("START_LOGGER_DOWNLOAD", 1), j)
               /\ np.stage = "done" /\ np.result = "returned"
               /\ np.delegate.temperatures_finished /\ np.delegate.humidities_finished
        /\ np.stage = "waiting" =>
               /\ np.delegate.logger_interval = np.read.interval
               /\ np.delegate.oldest_timestamp = np.read.oldest
               /\ np.delegate.newest_timestamp = np.read.newest

\* a pass with both hints given, which differ from what the Smart Gadget
\* reported, has run through all its steps
C33_Witness ==
    /\ np.stage = "done" /\ np.result = "returned"
    /\ np.enable_temperature /\ np.enable_humidity
    /\ np.oldest = 10 /\ np.read.oldest = 0
    /\ np.newest = 20 /\ np.read.newest = 30
    /\ Len(np.log) = 13
    /\ np.log[13] = Op("disable_humidity_notifications", 0)

\* =====================================================================
\* Properties of the accumulated Timelines over the passes of a call
\* =====================================================================
Timestamps(array) == [p \in 1..Len(array) |-> array[p][1]]

\* the timestamps ascend by exactly one logger interval
EvenlySpaced(array) ==
    \A p \in 1..(Len(array) - 1) : array[p + 1][1] - array[p][1] = rc.interval

C36_IntervalOfThisCall ==
    (iv.stage # "none") => iv.used \subseteq iv.reported

\* C35: during one fetch_logged_data call, whenever a pass has returned and the
\* loop goes on to read the window state (interval, oldest, newest) from its
\* notification handler, that handler belongs to the session currently cached
\* for the Smart Gadget, not to one that _process dropped or replaced.
C35_HandlerOfCachedSession ==
    (pc = "f_pass_done" /\ last.result = "returned")
        => gadgets_connected[fetch.mac_address] = fetch.delegate

\* the calls whose establishment attempts are counted: the one running and the
\* one that ended last
Calls == {f \in {frame, last} : f.method \in {"_process", "connect_gadgets"}}

\* C37: the remaining-retries counter is never negative, and within one
\* top-level call (one Smart Gadget of connect_gadgets, or one _process
\* request) the number of session-establishment attempts never exceeds the
\* max_attempts in force when the call started.
C37_AttemptsWithinBudget ==
    /\ retries_remaining >= 0
    /\ \A f \in Calls :
           /\ f.attempts <= f.k
           /\ \A i \in 1..Len(f.log) : f.log[i].attempts <= f.k

\* a request has used up a budget of two establishment attempts
C37_Witness ==
    /\ last.method = "_process"
    /\ last.k = 2
    /\ last.attempts = 2
    /\ retries_remaining = 0

\* connect_gadgets reaches a Smart Gadget that has a cached session
CachedConnectStep ==
    /\ pc = "cg_for"
    /\ frame.index < Len(frame.mac_addresses)
    /\ gadgets_connected[frame.mac_addresses[frame.index + 1]] # None

\* the operation of a request that found a cached session succeeds at once
CachedRequestStep ==
    /\ pc = "p_exec"
    /\ frame.was_cached
    /\ frame.executions = 0
    /\ pc' # "p_exec"
    /\ last'.method = "_process"
    /\ last'.result = "returned"

\* C38: for a Smart Gadget with a cached session, connect_gadget and a request
\* whose operation succeeds make no establishment attempt and keep the same
\* session object; connect_gadget only adds the Smart Gadget to the requested
\* set, and a successful request on a requested Smart Gadget leaves it
\* connected and requested.
C38_CachedSessionIsKept ==
    [][/\ CachedConnectStep =>
           LET mac == frame.mac_addresses[frame.index + 1]
           IN  /\ pc' = "cg_for"
               /\ frame'.attempts = 0
               /\ gadgets_connected' = gadgets_connected
               /\ sessions_created' = sessions_created
               /\ requested_connections' = requested_connections \cup {mac}
               /\ max_attempts' = max_attempts
       /\ CachedRequestStep =>
           /\ last'.attempts = 0
           /\ sessions_created' = sessions_created
           /\ gadgets_connected' = gadgets_connected
           /\ frame.was_requested =>
                  /\ frame.mac_address \in requested_connections'
                  /\ requested_connections' = requested_connections]_vars

====
